---- MODULE Spec2Model ----
(***************************************************************************)
(* zenotes: the relational store (users, folders, notes, tags, note_tags)  *)
(* and the request handlers that read and write it.  Rows are keyed by id; *)
(* a handler is one action unless a specification runs it statement by     *)
(* statement (the Step actions further down).                               *)
(***************************************************************************)
EXTENDS Integers, FiniteSets, Sequences, TLC

\* ------------------------------------------------------------------ bounds
MaxFolders == 3
MaxNotes == 1
MaxTags == 2
MaxTagIds == 2
MaxTime == 2

FolderIds == 1..MaxFolders
NoteIds == 1..MaxNotes
TagIds == 1..MaxTags

\* SQL NULL / JavaScript null in an id column or an id input.
Null == 0

\* The accounts that may register: users.email and users.username are both unique,
\* so there are never more users than addresses.
Emails == {"e1", "e2"}
Usernames == [e \in Emails |-> IF e = "e1" THEN "n1" ELSE "n2"]
UserIds == 1..Cardinality(Emails)
Passwords == {<<"p1">>}
Salts == {<<"s1">>}
FolderNames == {"a"}
Titles == {"t"}
TagNames == {"x", "X"}

VARIABLES users, folders, notes, tags, noteTags, issued, now, last, calls

store == <<users, folders, notes, tags, noteTags>>
vars == <<users, folders, notes, tags, noteTags, issued, now, last, calls>>

\* ------------------------------------------------------------------ helpers
Has(input, field) == field \in DOMAIN input

\* input.f || null
OrNull(input, field) ==
    IF Has(input, field) /\ input[field] # Null THEN input[field] ELSE Null

\* A table with one more row / with one row replaced.
Insert(table, id, row) == [i \in DOMAIN table \cup {id} |-> IF i = id THEN row ELSE table[i]]

Remove(table, ids) == [i \in DOMAIN table \ ids |-> table[i]]

Ok == "ok"
ErrUserNotFound == "User not found"
ErrCreateParent == "Parent folder not found or does not belong to user"
ErrFolderNotFound == "Folder not found"
ErrSelfParent == "Cannot set folder as its own parent"
ErrCycleDetected == "Circular reference detected in folder hierarchy"
ErrWouldCycle == "Cannot create circular reference in folder hierarchy"
ErrParentNotFound == "Parent folder not found"
ErrDeleteFolder == "Folder not found or access denied"
ErrNoteFolder == "Folder not found or access denied"
ErrNoteTags == "One or more tags not found or access denied"
ErrNoteNotFound == "Note not found"
ErrUpdateNoteFolder == "Folder not found or does not belong to user"
ErrUpdateNoteTags == "One or more tags do not belong to user"
ErrEmailExists == "User with this email already exists"
ErrUsernameExists == "User with this username already exists"
ErrForeignKey == "violates foreign key constraint"
ErrStore == "store statement failed"
ErrPrimaryKey == "duplicate key value violates unique constraint"
ErrTagUser == "User with ID not found"
ErrTagExists == "Tag with name already exists for this user"
ErrTagNotFound == "Tag not found"
ErrTagDuplicate == "Tag with this name already exists"
ErrInvalidLogin == "Invalid email or password"

NoCall == [op |-> "idle"]

Completed(op, input, error, result) ==
    [op |-> op, input |-> input, error |-> error, result |-> result]

\* ------------------------------------------------------------------ users
\* pbkdf2Sync(password, salt, ...).toString('hex'): a digest, a function of both.
Pbkdf2(password, salt) == <<"pbkdf2">> \o password \o salt

PasswordHash(password, salt) == salt \o <<":">> \o Pbkdf2(password, salt)

CreateUserError(input) ==
    LET existingUsers == {u \in DOMAIN users :
            users[u].email = input.email \/ users[u].username = input.username}
    IN  IF existingUsers = {} THEN Ok
        ELSE LET existingUser == CHOOSE u \in existingUsers : \A v \in existingUsers : u <= v
             IN  IF users[existingUser].email = input.email THEN ErrEmailExists
                 ELSE ErrUsernameExists

CreateUser(input, salt) ==
    LET error == CreateUserError(input)
        id == issued.users + 1
    IN  /\ id \in UserIds
        /\ IF error = Ok
           THEN /\ users' = Insert(users, id,
                        [email |-> input.email, username |-> input.username,
                         password_hash |-> PasswordHash(input.password, salt)])
                /\ issued' = [issued EXCEPT !.users = id]
                /\ last' = Completed("createUser", input, Ok, id)
           ELSE /\ UNCHANGED <<users, issued>>
                /\ last' = Completed("createUser", input, error, Null)
        /\ UNCHANGED <<folders, notes, tags, noteTags, now, calls>>

\* loginUser: the user of that email, and its stored password_hash compared with the
\* password of the input as it came.
LoginUserError(input) ==
    LET found == {u \in DOMAIN users : users[u].email = input.email}
    IN  IF found = {} THEN ErrInvalidLogin
        ELSE LET user == users[CHOOSE u \in found : TRUE]
             IN  IF user.password_hash # input.password THEN ErrInvalidLogin ELSE Ok

LoginUser(input) ==
    LET error == LoginUserError(input)
    IN  /\ last' = Completed("loginUser", input, error,
                             IF error = Ok
                             THEN CHOOSE u \in DOMAIN users : users[u].email = input.email
                             ELSE Null)
        /\ UNCHANGED <<users, folders, notes, tags, noteTags, issued, now, calls>>

\* ------------------------------------------------------------------ folders
\* The insert without the parent column.
FolderRowAsRoot(name, user_id, parent_folder_id, created_at, updated_at) ==
    [name |-> name, user_id |-> user_id, parent_folder_id |-> Null,
     created_at |-> created_at, updated_at |-> updated_at]

FolderRow(name, user_id, parent_folder_id, created_at, updated_at) ==
    [name |-> name, user_id |-> user_id, parent_folder_id |-> parent_folder_id,
     created_at |-> created_at, updated_at |-> updated_at]

\* The parent check by existence alone, whoever owns the parent.
CreateFolderErrorAnyOwner(input) ==
    IF input.user_id \notin DOMAIN users THEN ErrUserNotFound
    ELSE IF OrNull(input, "parent_folder_id") # Null
            /\ input.parent_folder_id \notin DOMAIN folders
         THEN ErrCreateParent
         ELSE Ok

\* The checks without the one on the user.
CreateFolderErrorNoUserCheck(input) ==
    IF OrNull(input, "parent_folder_id") # Null
       /\ ~ (/\ input.parent_folder_id \in DOMAIN folders
             /\ folders[input.parent_folder_id].user_id = input.user_id)
    THEN ErrCreateParent
    ELSE Ok

CreateFolderError(input) ==
    IF input.user_id \notin DOMAIN users THEN ErrUserNotFound
    ELSE IF OrNull(input, "parent_folder_id") # Null
            /\ ~ (/\ input.parent_folder_id \in DOMAIN folders
                  /\ folders[input.parent_folder_id].user_id = input.user_id)
         THEN ErrCreateParent
         ELSE Ok

CreateFolder(input) ==
    LET error == CreateFolderError(input)
        id == issued.folders + 1
    IN  /\ issued.folders < MaxFolders
        /\ IF error = Ok
           THEN /\ folders' = Insert(folders, id,
                        FolderRow(input.name, input.user_id,
                                  OrNull(input, "parent_folder_id"), now, now))
                /\ issued' = [issued EXCEPT !.folders = id]
                /\ last' = Completed("createFolder", input, Ok, id)
           ELSE /\ UNCHANGED <<folders, issued>>
                /\ last' = Completed("createFolder", input, error, Null)
        /\ UNCHANGED <<users, notes, tags, noteTags, now, calls>>

\* The walk without the comparison of the visited folder with folderId.
RECURSIVE AncestorWalkNoTarget(_, _, _, _)
AncestorWalkNoTarget(fs, folderId, currentParentId, visitedIds) ==
    IF currentParentId = Null THEN Ok
    ELSE IF currentParentId \in visitedIds THEN ErrCycleDetected
    ELSE IF currentParentId \notin DOMAIN fs THEN ErrParentNotFound
    ELSE AncestorWalkNoTarget(fs, folderId, fs[currentParentId].parent_folder_id,
                              visitedIds \cup {currentParentId})

\* The while loop of validateNoCircularReference, one iteration per unfolding.
RECURSIVE AncestorWalk(_, _, _, _)
AncestorWalk(fs, folderId, currentParentId, visitedIds) ==
    IF currentParentId = Null THEN Ok
    ELSE IF currentParentId \in visitedIds THEN ErrCycleDetected
    ELSE IF currentParentId = folderId THEN ErrWouldCycle
    ELSE IF currentParentId \notin DOMAIN fs THEN ErrParentNotFound
    ELSE AncestorWalk(fs, folderId, fs[currentParentId].parent_folder_id,
                      visitedIds \cup {currentParentId})

\* The validator without its first test (folderId === newParentId).
validateWithoutSelfCheck(fs, folderId, newParentId) ==
    AncestorWalk(fs, folderId, newParentId, {})

\* The validator walking up from folderId looking for newParentId.
validateReversed(fs, folderId, newParentId) ==
    IF folderId = newParentId THEN ErrSelfParent
    ELSE AncestorWalk(fs, newParentId, fs[folderId].parent_folder_id, {})

validateNoCircularReference(fs, folderId, newParentId) ==
    IF folderId = newParentId THEN ErrSelfParent
    ELSE AncestorWalk(fs, folderId, newParentId, {})

UpdateFolderError(fs, input) ==
    IF input.id \notin DOMAIN fs THEN ErrFolderNotFound
    ELSE IF Has(input, "parent_folder_id") /\ input.parent_folder_id # Null
         THEN validateNoCircularReference(fs, input.id, input.parent_folder_id)
         ELSE Ok

\* updateData without updated_at.
UpdateFolderRowKeepingTime(row, input, time) ==
    [row EXCEPT !.name = IF Has(input, "name") THEN input.name ELSE @,
                !.parent_folder_id =
                    IF Has(input, "parent_folder_id") THEN input.parent_folder_id ELSE @]

\* updateData with parent_folder_id always set, to input.parent_folder_id || null.
UpdateFolderRowParentOrNull(row, input, time) ==
    [row EXCEPT !.updated_at = time,
                !.name = IF Has(input, "name") THEN input.name ELSE @,
                !.parent_folder_id = OrNull(input, "parent_folder_id")]

\* updateData applied to the row: updated_at always, name and parent when given.
UpdateFolderRow(row, input, time) ==
    [row EXCEPT !.updated_at = time,
                !.name = IF Has(input, "name") THEN input.name ELSE @,
                !.parent_folder_id =
                    IF Has(input, "parent_folder_id") THEN input.parent_folder_id ELSE @]

\* The update statement issued before the checks: a failing call has already written.
UpdateFolderWriteFirst(input) ==
    LET error == UpdateFolderError(folders, input)
    IN  /\ folders' = IF input.id \in DOMAIN folders
                      THEN [folders EXCEPT ![input.id] = UpdateFolderRow(@, input, now)]
                      ELSE folders
        /\ last' = Completed("updateFolder", input, error, IF error = Ok THEN input.id ELSE Null)
        /\ UNCHANGED <<users, notes, tags, noteTags, issued, now, calls>>

UpdateFolder(input) ==
    LET error == UpdateFolderError(folders, input)
    IN  /\ IF error = Ok
           THEN /\ folders' = [folders EXCEPT ![input.id] = UpdateFolderRow(@, input, now)]
                /\ last' = Completed("updateFolder", input, Ok, input.id)
           ELSE /\ UNCHANGED folders
                /\ last' = Completed("updateFolder", input, error, Null)
        /\ UNCHANGED <<users, notes, tags, noteTags, issued, now, calls>>

\* The select without the user_id condition.
DeleteFolderSelectAnyOwner(fs, input) == {f \in DOMAIN fs : f = input.id}

\* deleteFolder, statement by statement.
DeleteFolderSelect(fs, input) ==
    {f \in DOMAIN fs : f = input.id /\ fs[f].user_id = input.user_id}

\* The notes update setting folder_id to null whatever the parent.
MoveNotesToNull(ns, id, parent) ==
    [n \in DOMAIN ns |-> IF ns[n].folder_id = id
                         THEN [ns[n] EXCEPT !.folder_id = Null] ELSE ns[n]]

MoveNotes(ns, id, parent) ==
    [n \in DOMAIN ns |-> IF ns[n].folder_id = id
                         THEN [ns[n] EXCEPT !.folder_id = parent] ELSE ns[n]]

\* The subfolders update also setting user_id, to the owner of the deleted folder.
MoveSubfoldersTakingOwner(fs, id, parent) ==
    [f \in DOMAIN fs |-> IF fs[f].parent_folder_id = id
                         THEN [fs[f] EXCEPT !.parent_folder_id = parent,
                                            !.user_id = fs[id].user_id]
                         ELSE fs[f]]

\* The subfolders update left out.
MoveSubfoldersSkipped(fs, id, parent) == fs

\* The subfolders update without its where clause.
MoveEveryFolder(fs, id, parent) ==
    [f \in DOMAIN fs |-> [fs[f] EXCEPT !.parent_folder_id = parent]]

\* The subfolders update setting NULL for every subfolder.
MoveSubfoldersToRoot(fs, id, parent) ==
    [f \in DOMAIN fs |-> IF fs[f].parent_folder_id = id
                         THEN [fs[f] EXCEPT !.parent_folder_id = Null] ELSE fs[f]]

\* The subfolders update reaching the subfolders' own subfolders as well.
MoveSubfoldersTwoLevels(fs, id, parent) ==
    [f \in DOMAIN fs |->
        IF \/ fs[f].parent_folder_id = id
           \/ /\ fs[f].parent_folder_id \in DOMAIN fs
              /\ fs[fs[f].parent_folder_id].parent_folder_id = id
        THEN [fs[f] EXCEPT !.parent_folder_id = parent] ELSE fs[f]]

MoveSubfolders(fs, id, parent) ==
    [f \in DOMAIN fs |-> IF fs[f].parent_folder_id = id
                         THEN [fs[f] EXCEPT !.parent_folder_id = parent] ELSE fs[f]]

DeleteFolderRow(fs, input) ==
    Remove(fs, {f \in DOMAIN fs : f = input.id /\ fs[f].user_id = input.user_id})

\* notes.folder_id references folders.id ON DELETE SET NULL.
OnDeleteSetNull(ns, fs) ==
    [n \in DOMAIN ns |-> IF ns[n].folder_id # Null /\ ns[n].folder_id \notin DOMAIN fs
                         THEN [ns[n] EXCEPT !.folder_id = Null] ELSE ns[n]]

DeleteFolder(input) ==
    LET folder == DeleteFolderSelect(folders, input)
    IN  /\ IF folder = {}
           THEN /\ UNCHANGED <<folders, notes>>
                /\ last' = Completed("deleteFolder", input, ErrDeleteFolder, Null)
           ELSE LET folderToDelete == folders[CHOOSE f \in folder : TRUE]
                    movedNotes == MoveNotes(notes, input.id, folderToDelete.parent_folder_id)
                    movedFolders == MoveSubfolders(folders, input.id,
                                                   folderToDelete.parent_folder_id)
                    remaining == DeleteFolderRow(movedFolders, input)
                IN  /\ folders' = remaining
                    /\ notes' = OnDeleteSetNull(movedNotes, remaining)
                    /\ last' = Completed("deleteFolder", input, Ok, input.id)
        /\ UNCHANGED <<users, tags, noteTags, issued, now, calls>>

\* ------------------------------------------------------------------ tags
TagRow(name, user_id, created_at, updated_at) ==
    [name |-> name, user_id |-> user_id, created_at |-> created_at, updated_at |-> updated_at]

\* The tags of a user with a name: eq() on a text column compares case-sensitively.
TagsNamed(user_id, name) ==
    {t \in DOMAIN tags : tags[t].user_id = user_id /\ tags[t].name = name}

\* The checks without the one on the name.
CreateTagErrorNoNameCheck(input) ==
    IF input.user_id \notin DOMAIN users THEN ErrTagUser ELSE Ok

CreateTagError(input) ==
    IF input.user_id \notin DOMAIN users THEN ErrTagUser
    ELSE IF TagsNamed(input.user_id, input.name) # {} THEN ErrTagExists
    ELSE Ok

CreateTag(input) ==
    LET error == CreateTagError(input)
        id == issued.tags + 1
    IN  /\ issued.tags < MaxTags
        /\ IF error = Ok
           THEN /\ tags' = Insert(tags, id, TagRow(input.name, input.user_id, now, now))
                /\ issued' = [issued EXCEPT !.tags = id]
                /\ last' = Completed("createTag", input, Ok, id)
           ELSE /\ UNCHANGED <<tags, issued>>
                /\ last' = Completed("createTag", input, error, Null)
        /\ UNCHANGED <<users, folders, notes, noteTags, now, calls>>

UpdateTagError(input) ==
    IF input.id \notin DOMAIN tags THEN ErrTagNotFound
    ELSE LET existingTag == tags[input.id]
         IN  IF /\ Has(input, "name") /\ input.name # existingTag.name
                /\ TagsNamed(existingTag.user_id, input.name) # {}
             THEN ErrTagDuplicate
             ELSE Ok

UpdateTagRow(row, input, time) ==
    [row EXCEPT !.updated_at = time,
                !.name = IF Has(input, "name") THEN input.name ELSE @]

UpdateTag(input) ==
    LET error == UpdateTagError(input)
    IN  /\ IF error = Ok
           THEN /\ tags' = [tags EXCEPT ![input.id] = UpdateTagRow(@, input, now)]
                /\ last' = Completed("updateTag", input, Ok, input.id)
           ELSE /\ UNCHANGED tags
                /\ last' = Completed("updateTag", input, error, Null)
        /\ UNCHANGED <<users, folders, notes, noteTags, issued, now, calls>>

\* ------------------------------------------------------------------ notes
\* The ids in a tag_ids array, and whether one of them occurs twice.
Range(array) == {array[i] : i \in DOMAIN array}

HasDuplicate(array) == Cardinality(Range(array)) < Len(array)

\* The rows that one insert into note_tags writes for a note.
NoteTagRows(note_id, array) == {[note_id |-> note_id, tag_id |-> t] : t \in Range(array)}

NoteRow(title, user_id, folder_id, created_at, updated_at) ==
    [title |-> title, user_id |-> user_id, folder_id |-> folder_id,
     created_at |-> created_at, updated_at |-> updated_at]

OwnedTags(user_id) == {t \in DOMAIN tags : tags[t].user_id = user_id}

CreateNoteError(input) ==
    IF OrNull(input, "folder_id") # Null
       /\ ~ (/\ input.folder_id \in DOMAIN folders
             /\ folders[input.folder_id].user_id = input.user_id)
    THEN ErrNoteFolder
    ELSE IF Has(input, "tag_ids") /\ Range(input.tag_ids) \ OwnedTags(input.user_id) # {}
         THEN ErrNoteTags
         ELSE IF input.user_id \notin DOMAIN users THEN ErrForeignKey
              ELSE Ok

CreateNote(input) ==
    LET error == CreateNoteError(input)
        id == issued.notes + 1
    IN  /\ issued.notes < MaxNotes
        /\ IF error = Ok
           THEN /\ notes' = Insert(notes, id,
                        NoteRow(input.title, input.user_id, OrNull(input, "folder_id"),
                                now, now))
                /\ issued' = [issued EXCEPT !.notes = id]
                /\ IF Has(input, "tag_ids") /\ HasDuplicate(input.tag_ids)
                   THEN \* the insert into note_tags rejects: (note_id, tag_id) is the key
                        /\ UNCHANGED noteTags
                        /\ last' = Completed("createNote", input, ErrPrimaryKey, Null)
                   ELSE /\ noteTags' = noteTags \cup
                                (IF Has(input, "tag_ids")
                                 THEN NoteTagRows(id, input.tag_ids) ELSE {})
                        /\ last' = Completed("createNote", input, Ok, id)
           ELSE /\ UNCHANGED <<notes, noteTags, issued>>
                /\ last' = Completed("createNote", input, error, Null)
        /\ UNCHANGED <<users, folders, tags, now, calls>>

UpdateNoteError(input) ==
    IF input.id \notin DOMAIN notes THEN ErrNoteNotFound
    ELSE LET note == notes[input.id]
         IN  IF /\ Has(input, "folder_id") /\ input.folder_id # Null
                /\ ~ (/\ input.folder_id \in DOMAIN folders
                      /\ folders[input.folder_id].user_id = note.user_id)
             THEN ErrUpdateNoteFolder
             ELSE IF /\ Has(input, "tag_ids")
                     /\ Range(input.tag_ids) \ OwnedTags(note.user_id) # {}
                  THEN ErrUpdateNoteTags
                  ELSE Ok

UpdateNoteRow(row, input, time) ==
    [row EXCEPT !.updated_at = time,
                !.title = IF Has(input, "title") THEN input.title ELSE @,
                !.folder_id = IF Has(input, "folder_id") THEN input.folder_id ELSE @]

\* The delete of the note's rows in note_tags left out.
DeleteNoteTagsSkipped(nts, note_id) == nts

\* db.delete(noteTagsTable).where(note_id = input.id)
DeleteNoteTags(nts, note_id) == {r \in nts : r.note_id # note_id}

UpdateNote(input) ==
    LET error == UpdateNoteError(input)
    IN  /\ IF error = Ok
           THEN /\ notes' = [notes EXCEPT ![input.id] = UpdateNoteRow(@, input, now)]
                /\ IF ~ Has(input, "tag_ids")
                   THEN /\ UNCHANGED noteTags
                        /\ last' = Completed("updateNote", input, Ok, input.id)
                   ELSE IF HasDuplicate(input.tag_ids)
                   THEN \* the delete has run, the insert rejects: (note_id, tag_id) is the key
                        /\ noteTags' = DeleteNoteTags(noteTags, input.id)
                        /\ last' = Completed("updateNote", input, ErrPrimaryKey, Null)
                   ELSE /\ noteTags' = DeleteNoteTags(noteTags, input.id)
                                            \cup NoteTagRows(input.id, input.tag_ids)
                        /\ last' = Completed("updateNote", input, Ok, input.id)
           ELSE /\ UNCHANGED <<notes, noteTags>>
                /\ last' = Completed("updateNote", input, error, Null)
        /\ UNCHANGED <<users, folders, tags, issued, now, calls>>

\* ------------------------------------------------------------------ deleteFolder by statement
\* One call of deleteFolder as the sequence of its awaited store statements.  Each
\* statement is its own step: the handler opens no transaction, and a statement that
\* rejects is caught, logged and rethrown with nothing undone.
Clients == {1, 2}

Running == {"select", "moveNotes", "moveSubfolders", "deleteRow"}

IsRunning(p) == calls[p].op # "idle" /\ calls[p].pc \notin {"done", "failed"}

Quiet == \A p \in Clients : ~ IsRunning(p)

\* No request has been received yet.
Idle == \A p \in Clients : calls[p] = NoCall

Finish(p, error, result) ==
    /\ calls' = [calls EXCEPT ![p] = [op |-> @.op, pc |-> IF error = Ok THEN "done" ELSE "failed",
                                      input |-> @.input]]
    /\ last' = Completed(calls[p].op, calls[p].input, error, result)

DeleteFolderCall(p, input) ==
    /\ ~ IsRunning(p)
    /\ calls' = [calls EXCEPT ![p] = [op |-> "deleteFolder", pc |-> "select", input |-> input,
                                      before |-> [folders |-> folders, notes |-> notes]]]
    /\ UNCHANGED <<users, folders, notes, tags, noteTags, issued, now, last>>

DeleteFolderSelectStep(p) ==
    /\ calls[p].op = "deleteFolder" /\ calls[p].pc = "select"
    /\ LET folder == DeleteFolderSelect(folders, calls[p].input)
       IN  IF folder = {}
           THEN Finish(p, ErrDeleteFolder, Null)
           ELSE /\ calls' = [calls EXCEPT ![p] =
                        [op |-> @.op, pc |-> "moveNotes", input |-> @.input,
                         before |-> @.before,
                         folderToDelete |-> folders[CHOOSE f \in folder : TRUE]]]
                /\ UNCHANGED last
    /\ UNCHANGED <<users, folders, notes, tags, noteTags, issued, now>>

DeleteFolderMoveNotesStep(p) ==
    /\ calls[p].op = "deleteFolder" /\ calls[p].pc = "moveNotes"
    /\ notes' = MoveNotes(notes, calls[p].input.id, calls[p].folderToDelete.parent_folder_id)
    /\ calls' = [calls EXCEPT ![p].pc = "moveSubfolders"]
    /\ UNCHANGED <<users, folders, tags, noteTags, issued, now, last>>

DeleteFolderMoveSubfoldersStep(p) ==
    /\ calls[p].op = "deleteFolder" /\ calls[p].pc = "moveSubfolders"
    /\ folders' = MoveSubfolders(folders, calls[p].input.id,
                                 calls[p].folderToDelete.parent_folder_id)
    /\ calls' = [calls EXCEPT ![p].pc = "deleteRow"]
    /\ UNCHANGED <<users, notes, tags, noteTags, issued, now, last>>

DeleteFolderRowStep(p) ==
    /\ calls[p].op = "deleteFolder" /\ calls[p].pc = "deleteRow"
    /\ folders' = DeleteFolderRow(folders, calls[p].input)
    /\ notes' = OnDeleteSetNull(notes, folders')
    /\ Finish(p, Ok, calls[p].input.id)
    /\ UNCHANGED <<users, tags, noteTags, issued, now>>

\* The statement the call is at rejects (connection lost, statement timeout, ...).
DeleteFolderStatementFails(p) ==
    /\ calls[p].op = "deleteFolder" /\ calls[p].pc \in Running
    /\ Finish(p, ErrStore, Null)
    /\ UNCHANGED <<users, folders, notes, tags, noteTags, issued, now>>

\* ------------------------------------------------------------------ updateFolder by statement
\* One call of updateFolder as the sequence of its awaited store statements: the
\* select of the target, one select per iteration of the validator's loop, the
\* update.  The code between two awaits runs with the statement before it.
\* db.select() of the target, then the code up to the next statement: the length
\* test, the self-parent test and the first pass through the head of the loop.
UpdateFolderSelectStep(p) ==
    /\ calls[p].op = "updateFolder" /\ calls[p].pc = "select"
    /\ LET input == calls[p].input
       IN  IF input.id \notin DOMAIN folders
           THEN Finish(p, ErrFolderNotFound, Null)
           ELSE IF Has(input, "parent_folder_id") /\ input.parent_folder_id # Null
                THEN IF input.id = input.parent_folder_id
                     THEN Finish(p, ErrSelfParent, Null)
                     ELSE /\ calls' = [calls EXCEPT ![p].pc = "walk",
                                          ![p].currentParentId = input.parent_folder_id,
                                          ![p].visitedIds = {input.parent_folder_id}]
                          /\ UNCHANGED last
                ELSE /\ calls' = [calls EXCEPT ![p].pc = "update"]
                     /\ UNCHANGED last
    /\ UNCHANGED <<users, folders, notes, tags, noteTags, issued, now>>

\* The walk without its set of visited ids.
UpdateFolderWalkStepNoVisited(p) ==
    /\ calls[p].op = "updateFolder" /\ calls[p].pc = "walk"
    /\ LET input == calls[p].input
           currentParentId == calls[p].currentParentId
       IN  IF currentParentId \notin DOMAIN folders
           THEN Finish(p, ErrParentNotFound, Null)
           ELSE LET next == folders[currentParentId].parent_folder_id
                IN  IF next = Null
                    THEN calls' = [calls EXCEPT ![p].pc = "update"] /\ UNCHANGED last
                    ELSE IF next = input.id
                    THEN Finish(p, ErrWouldCycle, Null)
                    ELSE /\ calls' = [calls EXCEPT ![p].currentParentId = next,
                                         ![p].visitedIds = @ \cup {next}]
                         /\ UNCHANGED last
    /\ UNCHANGED <<users, folders, notes, tags, noteTags, issued, now>>

\* The walk with one message for both of its cycle errors.
UpdateFolderWalkStepOneError(p) ==
    /\ calls[p].op = "updateFolder" /\ calls[p].pc = "walk"
    /\ LET input == calls[p].input
           currentParentId == calls[p].currentParentId
       IN  IF currentParentId \notin DOMAIN folders
           THEN Finish(p, ErrParentNotFound, Null)
           ELSE LET next == folders[currentParentId].parent_folder_id
                IN  IF next = Null
                    THEN calls' = [calls EXCEPT ![p].pc = "update"] /\ UNCHANGED last
                    ELSE IF next \in calls[p].visitedIds \/ next = input.id
                    THEN Finish(p, ErrWouldCycle, Null)
                    ELSE /\ calls' = [calls EXCEPT ![p].currentParentId = next,
                                         ![p].visitedIds = @ \cup {next}]
                         /\ UNCHANGED last
    /\ UNCHANGED <<users, folders, notes, tags, noteTags, issued, now>>

\* db.select() of currentParentId, then the loop up to its next select or its exit.
UpdateFolderWalkStep(p) ==
    /\ calls[p].op = "updateFolder" /\ calls[p].pc = "walk"
    /\ LET input == calls[p].input
           currentParentId == calls[p].currentParentId
       IN  IF currentParentId \notin DOMAIN folders
           THEN Finish(p, ErrParentNotFound, Null)
           ELSE LET next == folders[currentParentId].parent_folder_id
                IN  IF next = Null
                    THEN calls' = [calls EXCEPT ![p].pc = "update"] /\ UNCHANGED last
                    ELSE IF next \in calls[p].visitedIds
                    THEN Finish(p, ErrCycleDetected, Null)
                    ELSE IF next = input.id
                    THEN Finish(p, ErrWouldCycle, Null)
                    ELSE /\ calls' = [calls EXCEPT ![p].currentParentId = next,
                                         ![p].visitedIds = @ \cup {next}]
                         /\ UNCHANGED last
    /\ UNCHANGED <<users, folders, notes, tags, noteTags, issued, now>>

\* db.update().where(id = input.id): no row matches when the folder is gone, and
\* result[0] is then undefined, returned without an error.
UpdateFolderWriteStep(p) ==
    /\ calls[p].op = "updateFolder" /\ calls[p].pc = "update"
    /\ LET input == calls[p].input
       IN  IF input.id \in DOMAIN folders
           THEN /\ folders' = [folders EXCEPT ![input.id] = UpdateFolderRow(@, input, now)]
                /\ Finish(p, Ok, input.id)
           ELSE /\ UNCHANGED folders
                /\ Finish(p, Ok, Null)
    /\ UNCHANGED <<users, notes, tags, noteTags, issued, now>>

\* ------------------------------------------------------------------ inputs
CreateUserInputs ==
    {[email |-> e, username |-> Usernames[e], password |-> p] : e \in Emails, p \in Passwords}

ParentInputs == FolderIds \cup {Null}

CreateFolderInputs ==
    [name : FolderNames, user_id : UserIds]
    \cup [name : FolderNames, user_id : UserIds, parent_folder_id : ParentInputs]

UpdateFolderInputs ==
    [id : FolderIds]
    \cup [id : FolderIds, name : FolderNames]
    \cup [id : FolderIds, parent_folder_id : ParentInputs]
    \cup [id : FolderIds, name : FolderNames, parent_folder_id : ParentInputs]

\* updateFolder inputs that carry a parent_folder_id and nothing else.
RaceUpdateInputs == [id : FolderIds, parent_folder_id : ParentInputs]

\* updateFolder inputs that may also carry a name no folder was created with.
NewNames == FolderNames \cup {"b"}

PatchFolderInputs ==
    [id : FolderIds]
    \cup [id : FolderIds, name : NewNames]
    \cup [id : FolderIds, parent_folder_id : ParentInputs]
    \cup [id : FolderIds, name : NewNames, parent_folder_id : ParentInputs]

DeleteFolderInputs == [id : FolderIds, user_id : UserIds]

\* tag_ids arrays, an id possibly more than once.
TagIdInputs == UNION {[1..n -> TagIds] : n \in 0..MaxTagIds}

CreateTagInputs == [name : TagNames, user_id : UserIds]

UpdateTagInputs == [id : TagIds] \cup [id : TagIds, name : TagNames]

\* createNote inputs that carry no tag_ids.
FiledNoteInputs ==
    [title : Titles, user_id : UserIds]
    \cup [title : Titles, user_id : UserIds, folder_id : ParentInputs]

CreateNoteInputs ==
    FiledNoteInputs \cup [title : Titles, user_id : UserIds, tag_ids : TagIdInputs]

UpdateNoteInputs ==
    [id : NoteIds]
    \cup [id : NoteIds, title : Titles]
    \cup [id : NoteIds, folder_id : ParentInputs]
    \cup [id : NoteIds, tag_ids : TagIdInputs]

\* ------------------------------------------------------------------ specification
EmptyTable == [i \in {} |-> Null]

Init ==
    /\ users = EmptyTable
    /\ folders = EmptyTable
    /\ notes = EmptyTable
    /\ tags = EmptyTable
    /\ noteTags = {}
    /\ issued = [users |-> 0, folders |-> 0, notes |-> 0, tags |-> 0]
    /\ now = 0
    /\ last = Completed("none", [id |-> Null], Ok, Null)
    /\ calls = [p \in Clients |-> NoCall]

Next ==
    \/ \E input \in CreateUserInputs, salt \in Salts : CreateUser(input, salt)
    \/ \E input \in CreateFolderInputs : CreateFolder(input)
    \/ \E input \in UpdateFolderInputs : UpdateFolder(input)
    \/ \E input \in DeleteFolderInputs : DeleteFolder(input)
    \/ \E input \in CreateNoteInputs : CreateNote(input)
    \/ \E input \in UpdateNoteInputs : UpdateNote(input)

Spec == Init /\ [][Next]_vars

\* The user and folder handlers alone: the folder hierarchy.
NextFolders ==
    \/ \E input \in CreateUserInputs, salt \in Salts : CreateUser(input, salt)
    \/ \E input \in CreateFolderInputs : CreateFolder(input)
    \/ \E input \in UpdateFolderInputs : UpdateFolder(input)
    \/ \E input \in DeleteFolderInputs : DeleteFolder(input)

SpecFolders == Init /\ [][NextFolders]_vars

\* Stores built by the create handlers, and deleteFolder on them.
NextDelete ==
    \/ \E input \in CreateUserInputs, salt \in Salts : CreateUser(input, salt)
    \/ \E input \in CreateFolderInputs : CreateFolder(input)
    \/ \E input \in FiledNoteInputs : CreateNote(input)
    \/ \E input \in DeleteFolderInputs : DeleteFolder(input)

SpecDelete == Init /\ [][NextDelete]_vars

\* One account registers; its folders and notes are created, then the folders are
\* renamed and moved.
NextPatch ==
    \/ \E input \in CreateUserInputs, salt \in Salts :
            input.email = "e1" /\ CreateUser(input, salt)
    \/ \E input \in CreateFolderInputs : CreateFolder(input)
    \/ \E input \in FiledNoteInputs : CreateNote(input)
    \/ \E input \in PatchFolderInputs : UpdateFolder(input)

SpecPatch == Init /\ [][NextPatch]_vars

\* The clock that new Date() reads moves on; two calls may read the same millisecond.
Tick ==
    /\ now < MaxTime
    /\ now' = now + 1
    /\ UNCHANGED <<users, folders, notes, tags, noteTags, issued, last, calls>>

\* One account's folders created, updated and deleted while the clock runs.
NextClock ==
    \/ Tick
    \/ \E input \in CreateUserInputs, salt \in Salts :
            input.email = "e1" /\ CreateUser(input, salt)
    \/ \E input \in CreateFolderInputs : CreateFolder(input)
    \/ \E input \in UpdateFolderInputs : UpdateFolder(input)
    \/ \E input \in DeleteFolderInputs : DeleteFolder(input)

SpecClock == Init /\ [][NextClock]_vars

\* Tags created and renamed; notes created and updated with folders and tags.
NextTags ==
    \/ \E input \in CreateUserInputs, salt \in Salts : CreateUser(input, salt)
    \/ \E input \in CreateFolderInputs : CreateFolder(input)
    \/ \E input \in CreateTagInputs : CreateTag(input)
    \/ \E input \in UpdateTagInputs : UpdateTag(input)
    \/ \E input \in CreateNoteInputs : CreateNote(input)
    \/ \E input \in UpdateNoteInputs : UpdateNote(input)

SpecTags == Init /\ [][NextTags]_vars

\* Accounts and their tags alone.
NextTagNames ==
    \/ \E input \in CreateUserInputs, salt \in Salts : CreateUser(input, salt)
    \/ \E input \in CreateTagInputs : CreateTag(input)
    \/ \E input \in UpdateTagInputs : UpdateTag(input)

SpecTagNames == Init /\ [][NextTagNames]_vars

\* Registration with either of two passwords, hashed under either of two salts.
RegisterPasswords == Passwords \cup {<<"p2">>}

RegisterSalts == Salts \cup {<<"s2">>}

RegisterInputs ==
    {[email |-> e, username |-> Usernames[e], password |-> p] :
        e \in Emails, p \in RegisterPasswords}

\* Passwords to log in with: the ones users register with, and the strings createUser
\* stores for them.
LoginPasswords ==
    RegisterPasswords
        \cup {PasswordHash(password, salt) : password \in RegisterPasswords,
                                             salt \in RegisterSalts}

LoginUserInputs == [email : Emails, password : LoginPasswords]

NextLogin ==
    \/ \E input \in RegisterInputs, salt \in RegisterSalts : CreateUser(input, salt)
    \/ \E input \in LoginUserInputs : LoginUser(input)

SpecLogin == Init /\ [][NextLogin]_vars

\* The validator is a function of the folders table and its two arguments.  One
\* updateFolder call runs, statement by statement, on every folders table over the
\* ids, parent links that form a cycle or name no folder included (a store that
\* interleaved calls can leave behind).
AnyFolders ==
    UNION {[S -> {FolderRow(n, 1, p, 0, 0) : n \in FolderNames, p \in ParentInputs}] :
                S \in SUBSET FolderIds}

InitWalk ==
    /\ users = Insert(EmptyTable, 1,
                      [email |-> "e1", username |-> Usernames["e1"],
                       password_hash |-> PasswordHash(<<"p1">>, <<"s1">>)])
    /\ folders \in AnyFolders
    /\ notes = EmptyTable
    /\ tags = EmptyTable
    /\ noteTags = {}
    /\ issued = [users |-> 1, folders |-> MaxFolders, notes |-> 0, tags |-> 0]
    /\ now = 0
    /\ last = Completed("none", [id |-> Null], Ok, Null)
    /\ \E input \in RaceUpdateInputs :
            calls = [p \in Clients |->
                        IF p = 1
                        THEN [op |-> "updateFolder", pc |-> "select", input |-> input,
                              currentParentId |-> Null, visitedIds |-> {}]
                        ELSE NoCall]

NextWalk ==
    \/ UpdateFolderSelectStep(1)
    \/ UpdateFolderWalkStep(1)
    \/ UpdateFolderWriteStep(1)

SpecWalk == InitWalk /\ [][NextWalk]_vars

\* Requests one after the other, deleteFolder run statement by statement against a
\* store whose statements may fail.
NextFaulty ==
    \/ Quiet /\ \E input \in CreateUserInputs, salt \in Salts : CreateUser(input, salt)
    \/ Quiet /\ \E input \in CreateFolderInputs : CreateFolder(input)
    \/ Quiet /\ \E input \in FiledNoteInputs : CreateNote(input)
    \/ Quiet /\ \E input \in DeleteFolderInputs : DeleteFolderCall(1, input)
    \/ DeleteFolderSelectStep(1)
    \/ DeleteFolderMoveNotesStep(1)
    \/ DeleteFolderMoveSubfoldersStep(1)
    \/ DeleteFolderRowStep(1)
    \/ DeleteFolderStatementFails(1)

SpecFaulty == Init /\ [][NextFaulty]_vars

\* Two requests on one folder arrive together: deleteFolder at client 1, updateFolder
\* with a parent_folder_id at client 2.
DeleteUpdateRaceCall(inputD, inputU) ==
    /\ Idle
    /\ inputU.id = inputD.id
    /\ calls' = [calls EXCEPT
                    ![1] = [op |-> "deleteFolder", pc |-> "select", input |-> inputD,
                            before |-> [folders |-> folders, notes |-> notes]],
                    ![2] = [op |-> "updateFolder", pc |-> "select", input |-> inputU,
                            currentParentId |-> Null, visitedIds |-> {}]]
    /\ UNCHANGED <<users, folders, notes, tags, noteTags, issued, now, last>>

\* A store built by create calls that succeeded (a create call that fails leaves the
\* store as it was), then a deleteFolder call and an updateFolder call in flight
\* together, each advancing one store statement at a time.
NextRace ==
    \/ /\ Idle
       /\ \E input \in CreateUserInputs, salt \in Salts : CreateUser(input, salt)
       /\ last'.error = Ok
    \/ /\ Idle
       /\ \E input \in CreateFolderInputs : CreateFolder(input)
       /\ last'.error = Ok
    \/ /\ Idle
       /\ \E input \in FiledNoteInputs : CreateNote(input)
       /\ last'.error = Ok
    \/ \E inputD \in DeleteFolderInputs, inputU \in RaceUpdateInputs :
            DeleteUpdateRaceCall(inputD, inputU)
    \/ DeleteFolderSelectStep(1)
    \/ DeleteFolderMoveNotesStep(1)
    \/ DeleteFolderMoveSubfoldersStep(1)
    \/ DeleteFolderRowStep(1)
    \/ UpdateFolderSelectStep(2)
    \/ UpdateFolderWalkStep(2)
    \/ UpdateFolderWriteStep(2)

SpecRace == Init /\ [][NextRace]_vars

\* Two updateFolder requests with a parent_folder_id, on different folders, arrive
\* together.
UpdateUpdateRaceCall(input1, input2) ==
    /\ Idle
    /\ input1.id # input2.id
    /\ calls' = [calls EXCEPT
                    ![1] = [op |-> "updateFolder", pc |-> "select", input |-> input1,
                            currentParentId |-> Null, visitedIds |-> {}],
                    ![2] = [op |-> "updateFolder", pc |-> "select", input |-> input2,
                            currentParentId |-> Null, visitedIds |-> {}]]
    /\ UNCHANGED <<users, folders, notes, tags, noteTags, issued, now, last>>

\* A store built by create calls that succeeded, then two updateFolder calls in flight
\* together, each advancing one store statement at a time.
NextUpdates ==
    \/ /\ Idle
       /\ \E input \in CreateUserInputs, salt \in Salts : CreateUser(input, salt)
       /\ last'.error = Ok
    \/ /\ Idle
       /\ \E input \in CreateFolderInputs : CreateFolder(input)
       /\ last'.error = Ok
    \/ \E input1, input2 \in RaceUpdateInputs : UpdateUpdateRaceCall(input1, input2)
    \/ \E p \in Clients : UpdateFolderSelectStep(p)
    \/ \E p \in Clients : UpdateFolderWalkStep(p)
    \/ \E p \in Clients : UpdateFolderWriteStep(p)

SpecUpdates == Init /\ [][NextUpdates]_vars

\* deleteFolder of a folder at client 1 and, at client 2, updateFolder of another
\* folder with the first as its new parent arrive together.
UpdateUnderDeletedRaceCall(inputD, inputU) ==
    /\ Idle
    /\ inputU.parent_folder_id = inputD.id
    /\ inputU.id # inputD.id
    /\ calls' = [calls EXCEPT
                    ![1] = [op |-> "deleteFolder", pc |-> "select", input |-> inputD,
                            before |-> [folders |-> folders, notes |-> notes]],
                    ![2] = [op |-> "updateFolder", pc |-> "select", input |-> inputU,
                            currentParentId |-> Null, visitedIds |-> {}]]
    /\ UNCHANGED <<users, folders, notes, tags, noteTags, issued, now, last>>

\* A store built by create calls that succeeded, then the two calls in flight
\* together, each advancing one store statement at a time.
NextMove ==
    \/ /\ Idle
       /\ \E input \in CreateUserInputs, salt \in Salts : CreateUser(input, salt)
       /\ last'.error = Ok
    \/ /\ Idle
       /\ \E input \in CreateFolderInputs : CreateFolder(input)
       /\ last'.error = Ok
    \/ \E inputD \in DeleteFolderInputs, inputU \in RaceUpdateInputs :
            UpdateUnderDeletedRaceCall(inputD, inputU)
    \/ DeleteFolderSelectStep(1)
    \/ DeleteFolderMoveNotesStep(1)
    \/ DeleteFolderMoveSubfoldersStep(1)
    \/ DeleteFolderRowStep(1)
    \/ UpdateFolderSelectStep(2)
    \/ UpdateFolderWalkStep(2)
    \/ UpdateFolderWriteStep(2)

SpecMove == Init /\ [][NextMove]_vars

\* ------------------------------------------------------------------ hierarchy
\* Whether following parent links from f, at most k times, ends at a root folder.
RECURSIVE RootWithin(_, _, _)
RootWithin(fs, f, k) ==
    /\ f \in DOMAIN fs
    /\ \/ fs[f].parent_folder_id = Null
       \/ k > 0 /\ RootWithin(fs, fs[f].parent_folder_id, k - 1)

\* The folders met by following parent links from f (f itself excluded), at most k links.
RECURSIVE AncestorsWithin(_, _, _)
AncestorsWithin(fs, f, k) ==
    IF k = 0 \/ f \notin DOMAIN fs \/ fs[f].parent_folder_id = Null THEN {}
    ELSE {fs[f].parent_folder_id} \cup AncestorsWithin(fs, fs[f].parent_folder_id, k - 1)

Ancestors(fs, f) == AncestorsWithin(fs, f, Cardinality(DOMAIN fs))

Acyclic(fs) == \A f \in DOMAIN fs : f \notin Ancestors(fs, f)

OwnedFolders(fs, user_id) == {f \in DOMAIN fs : fs[f].user_id = user_id}

\* ------------------------------------------------------------------ claims

\* C1: from every folder, following parent links reaches a root folder in at most N
\* steps, N the number of folders of that folder's user (so no id is ever revisited).
C1_RootWithinOwnFolders ==
    \A f \in DOMAIN folders :
        RootWithin(folders, f, Cardinality(OwnedFolders(folders, folders[f].user_id)))

\* The parent graph has no cycle and every chain ends at a root (N = all folders).
ParentGraphAcyclic ==
    \A f \in DOMAIN folders :
        /\ RootWithin(folders, f, Cardinality(DOMAIN folders))
        /\ f \notin Ancestors(folders, f)

\* C2: no dangling reference: every non-null parent and every non-null folder_id
\* names a folder that exists, never the id of a deleted folder.
C2_NoDanglingReference ==
    /\ \A f \in DOMAIN folders :
            folders[f].parent_folder_id # Null => folders[f].parent_folder_id \in DOMAIN folders
    /\ \A n \in DOMAIN notes :
            notes[n].folder_id # Null => notes[n].folder_id \in DOMAIN folders

C2_Witness ==
    /\ last.op = "deleteFolder" /\ last.error = Ok
    /\ \E f \in DOMAIN folders : folders[f].parent_folder_id # Null /\ f > last.input.id
    /\ \E n \in DOMAIN notes : notes[n].folder_id # Null

\* C3: every folder with a non-null parent has the same owner as its parent folder.
C3_ParentHasSameOwner ==
    \A f \in DOMAIN folders :
        (folders[f].parent_folder_id # Null /\ folders[f].parent_folder_id \in DOMAIN folders)
            => folders[folders[f].parent_folder_id].user_id = folders[f].user_id

\* C4: updateFolder(id = X, parent_folder_id = X) on an existing X fails with the
\* self-parent error, whatever else is supplied, and leaves X's row unchanged.
C4_SelfParentRejected ==
    [][(/\ last'.op = "updateFolder"
        /\ last'.input.id \in DOMAIN folders
        /\ Has(last'.input, "parent_folder_id")
        /\ last'.input.parent_folder_id = last'.input.id
        /\ UpdateFolder(last'.input))
       => /\ last'.error = ErrSelfParent
          /\ folders'[last'.input.id] = folders[last'.input.id]]_vars

C4_Witness ==
    /\ last.op = "updateFolder" /\ last.error = ErrSelfParent
    /\ Has(last.input, "name")
    /\ last.input.id \in DOMAIN folders /\ last.input.parent_folder_id = last.input.id

\* C5: in an acyclic store, updateFolder(id = X, parent_folder_id = P) with P a proper
\* descendant of X fails with the would-create-cycle error and X's parent stays.
C5_DescendantParentRejected ==
    [][(/\ last'.op = "updateFolder"
        /\ last'.input.id \in DOMAIN folders
        /\ Has(last'.input, "parent_folder_id")
        /\ last'.input.parent_folder_id \in DOMAIN folders
        /\ Acyclic(folders)
        /\ last'.input.id \in Ancestors(folders, last'.input.parent_folder_id)
        /\ UpdateFolder(last'.input))
       => /\ last'.error = ErrWouldCycle
          /\ folders'[last'.input.id].parent_folder_id
                = folders[last'.input.id].parent_folder_id]_vars

C5_Witness ==
    /\ last.op = "updateFolder" /\ last.error = ErrWouldCycle
    /\ last.input.id \in Ancestors(folders, last.input.parent_folder_id)
    /\ folders[last.input.parent_folder_id].parent_folder_id # last.input.id

\* C6: in an acyclic store, updateFolder(id = X, parent_folder_id = P) succeeds and
\* stores X.parent = P when X and P exist, differ, have one owner, and X is no
\* ancestor of P.
C6_LegalMoveAccepted ==
    [][(/\ last'.op = "updateFolder"
        /\ last'.input.id \in DOMAIN folders
        /\ Has(last'.input, "parent_folder_id")
        /\ last'.input.parent_folder_id \in DOMAIN folders
        /\ last'.input.parent_folder_id # last'.input.id
        /\ folders[last'.input.parent_folder_id].user_id = folders[last'.input.id].user_id
        /\ Acyclic(folders)
        /\ last'.input.id \notin Ancestors(folders, last'.input.parent_folder_id)
        /\ UpdateFolder(last'.input))
       => /\ last'.error = Ok
          /\ folders'[last'.input.id].parent_folder_id = last'.input.parent_folder_id]_vars

\* A folder moved under a folder that itself has a parent (a non-descendant, non-root).
C6_Witness ==
    /\ last.op = "updateFolder" /\ last.error = Ok
    /\ Has(last.input, "parent_folder_id") /\ last.input.parent_folder_id # Null
    /\ last.input.id \in DOMAIN folders
    /\ folders[last.input.id].parent_folder_id = last.input.parent_folder_id
    /\ folders[last.input.parent_folder_id].user_id = folders[last.input.id].user_id
    /\ folders[last.input.parent_folder_id].parent_folder_id # Null
    /\ last.input.id > last.input.parent_folder_id + 1

\* C7: after a successful deleteFolder(F) with F.parent = P, every folder whose parent
\* was F has parent P, every note filed in F is filed in P, and F is gone.
C7_DeleteMigratesToParent ==
    [][(/\ last'.op = "deleteFolder"
        /\ DeleteFolder(last'.input)
        /\ last'.error = Ok)
       => LET F == last'.input.id
              P == folders[F].parent_folder_id
          IN  /\ \A c \in DOMAIN folders :
                     folders[c].parent_folder_id = F
                         => c \in DOMAIN folders' /\ folders'[c].parent_folder_id = P
              /\ \A n \in DOMAIN notes :
                     notes[n].folder_id = F
                         => n \in DOMAIN notes' /\ notes'[n].folder_id = P
              /\ F \notin DOMAIN folders']_vars

C7_Witness ==
    /\ last.op = "deleteFolder" /\ last.error = Ok
    /\ last.input.id = 2
    /\ 1 \in DOMAIN folders /\ 3 \in DOMAIN folders
    /\ folders[3].parent_folder_id = 1
    /\ \E n \in DOMAIN notes : notes[n].folder_id = 1

\* C8: a successful deleteFolder(F) removes exactly the row F and no note; children
\* and notes of a deleted root become roots / unfiled; every folder or note that was
\* not directly in F keeps its parent / folder_id.
C8_DeleteFrame ==
    [][(/\ last'.op = "deleteFolder"
        /\ DeleteFolder(last'.input)
        /\ last'.error = Ok)
       => LET F == last'.input.id
              P == folders[F].parent_folder_id
          IN  /\ DOMAIN folders' = DOMAIN folders \ {F}
              /\ DOMAIN notes' = DOMAIN notes
              /\ P = Null =>
                     /\ \A c \in DOMAIN folders \ {F} :
                            folders[c].parent_folder_id = F
                                => folders'[c].parent_folder_id = Null
                     /\ \A n \in DOMAIN notes :
                            notes[n].folder_id = F => notes'[n].folder_id = Null
              /\ \A g \in DOMAIN folders \ {F} :
                     folders[g].parent_folder_id # F
                         => folders'[g].parent_folder_id = folders[g].parent_folder_id
              /\ \A n \in DOMAIN notes :
                     notes[n].folder_id # F => notes'[n].folder_id = notes[n].folder_id]_vars

\* A root was deleted; a former child is now a root and still has its own child.
C8_Witness ==
    /\ last.op = "deleteFolder" /\ last.error = Ok
    /\ last.input.id = 1
    /\ 2 \in DOMAIN folders /\ 3 \in DOMAIN folders
    /\ folders[2].parent_folder_id = Null
    /\ folders[3].parent_folder_id = 2
    /\ \E n \in DOMAIN notes : notes[n].folder_id = Null

\* C9: deleteFolder fails with one and the same error when no folder has the id and
\* when the folder is owned by another user, and then changes no folder and no note.
C9_DeleteRejected ==
    [][(/\ last'.op = "deleteFolder"
        /\ DeleteFolder(last'.input)
        /\ \/ last'.input.id \notin DOMAIN folders
           \/ folders[last'.input.id].user_id # last'.input.user_id)
       => /\ last'.error = ErrDeleteFolder
          /\ folders' = folders
          /\ notes' = notes]_vars

\* The foreign-owned case: the folder exists, with children, and the caller is a user.
C9_Witness ==
    /\ last.op = "deleteFolder" /\ last.error = ErrDeleteFolder
    /\ last.input.id \in DOMAIN folders
    /\ last.input.user_id \in DOMAIN users
    /\ folders[last.input.id].user_id # last.input.user_id
    /\ \E c \in DOMAIN folders : folders[c].parent_folder_id = last.input.id

\* The not-found case of C9.
DeleteMissingRejected ==
    /\ last.op = "deleteFolder" /\ last.error = ErrDeleteFolder
    /\ last.input.id \notin DOMAIN folders

\* C10: the three writes of deleteFolder are one atomic unit: when the call fails,
\* the folders and notes are what they were when the call started.
C10_DeleteAllOrNothing ==
    [][\A p \in Clients :
          (/\ calls[p].op = "deleteFolder" /\ calls[p].pc \in Running
           /\ calls'[p].pc = "failed")
          => /\ folders' = calls[p].before.folders
             /\ notes' = calls[p].before.notes]_vars

\* A deleteFolder call that went through all four statements changed the store as the
\* one-step DeleteFolder does.
StepsAgreeWithDeleteFolder ==
    [][\A p \in Clients :
          (calls[p].op = "deleteFolder" /\ calls[p].pc = "deleteRow" /\ calls'[p].pc = "done")
          => LET F == calls[p].input.id
                 P == calls[p].before.folders[F].parent_folder_id
                 moved == MoveSubfolders(calls[p].before.folders, F, P)
             IN  /\ folders' = DeleteFolderRow(moved, calls[p].input)
                 /\ notes' = MoveNotes(calls[p].before.notes, F, P)]_vars

\* C11: deleteFolder(F) racing updateFolder(F, parent_folder_id = Q): when the delete
\* removes F, every folder and note that was directly in F when the delete was called
\* is attached to the parent F has at that moment (the old parent or Q), never to a
\* parent F no longer has.
C11_RaceNeverHalfMigrated ==
    [][(/\ calls[1].op = "deleteFolder" /\ calls[1].pc = "deleteRow"
        /\ calls'[1].pc = "done"
        /\ calls[2].op = "updateFolder"
        /\ calls[2].input.id = calls[1].input.id)
       => LET F == calls[1].input.id
              before == calls[1].before
              parentAtDeletion == folders[F].parent_folder_id
          IN  /\ F \notin DOMAIN folders'
              /\ \A c \in DOMAIN before.folders \ {F} :
                     before.folders[c].parent_folder_id = F
                         => folders'[c].parent_folder_id = parentAtDeletion
              /\ \A n \in DOMAIN before.notes :
                     before.notes[n].folder_id = F
                         => notes'[n].folder_id = parentAtDeletion]_vars

\* Run alone, the statements of updateFolder end as the one-step UpdateFolder does.
UpdateStepsAgreeWithUpdateFolder ==
    [][(/\ calls[2].op = "updateFolder" /\ IsRunning(2) /\ calls'[2].pc \in {"done", "failed"}
        /\ calls[1].pc = "select")
       => /\ last'.error = UpdateFolderError(folders, calls[2].input)
          /\ last'.error = Ok =>
                folders'[calls[2].input.id]
                    = UpdateFolderRow(folders[calls[2].input.id], calls[2].input, now)]_vars

CreateMissingParentRejected ==
    /\ last.op = "createFolder" /\ last.error = ErrCreateParent
    /\ last.input.user_id \in DOMAIN users
    /\ last.input.parent_folder_id \notin DOMAIN folders

\* C13: createFolder with a user_id that names no user fails with the user-not-found
\* error, whatever the parent, and creates no folder row.
C13_CreateUnknownUserRejected ==
    [][(/\ last'.op = "createFolder"
        /\ last'.input.user_id \notin DOMAIN users
        /\ CreateFolder(last'.input))
       => /\ last'.error = ErrUserNotFound
          /\ folders' = folders]_vars

\* An unknown user names an existing folder as parent.
C13_Witness ==
    /\ last.op = "createFolder" /\ last.error = ErrUserNotFound
    /\ last.input.user_id \notin DOMAIN users
    /\ Has(last.input, "parent_folder_id")
    /\ last.input.parent_folder_id \in DOMAIN folders

\* C14: createFolder by an existing user, with no parent or with a parent folder of
\* that user, succeeds whatever folders of that name exist; the returned id names no
\* folder that existed before and the new row has the given name, owner and parent
\* (null when none was given).
C14_CreateStoresFolder ==
    [][(/\ last'.op = "createFolder"
        /\ last'.input.user_id \in DOMAIN users
        /\ \/ OrNull(last'.input, "parent_folder_id") = Null
           \/ /\ last'.input.parent_folder_id \in DOMAIN folders
              /\ folders[last'.input.parent_folder_id].user_id = last'.input.user_id
        /\ CreateFolder(last'.input))
       => /\ last'.error = Ok
          /\ last'.result \notin DOMAIN folders
          /\ DOMAIN folders' = DOMAIN folders \cup {last'.result}
          /\ folders'[last'.result].name = last'.input.name
          /\ folders'[last'.result].user_id = last'.input.user_id
          /\ folders'[last'.result].parent_folder_id
                = OrNull(last'.input, "parent_folder_id")
          /\ \A f \in DOMAIN folders : folders'[f] = folders[f]]_vars

\* A second folder of the same name, owner and non-null parent was created.
C14_Witness ==
    /\ last.op = "createFolder" /\ last.error = Ok
    /\ last.result \in DOMAIN folders
    /\ folders[last.result].parent_folder_id # Null
    /\ \E g \in DOMAIN folders \ {last.result} :
            /\ folders[g].name = folders[last.result].name
            /\ folders[g].user_id = folders[last.result].user_id
            /\ folders[g].parent_folder_id = folders[last.result].parent_folder_id

\* C15: updateFolder(id = X, parent_folder_id = P) with P an existing folder of a user
\* other than X's owner fails with the parent-not-found error and X's parent stays.
C15_ForeignParentRejected ==
    [][(/\ last'.op = "updateFolder"
        /\ last'.input.id \in DOMAIN folders
        /\ Has(last'.input, "parent_folder_id")
        /\ last'.input.parent_folder_id \in DOMAIN folders
        /\ folders[last'.input.parent_folder_id].user_id # folders[last'.input.id].user_id
        /\ UpdateFolder(last'.input))
       => /\ last'.error = ErrParentNotFound
          /\ folders'[last'.input.id].parent_folder_id
                = folders[last'.input.id].parent_folder_id]_vars

\* C16: updateFolder is a merge-patch on the target row: an omitted name leaves the
\* stored name, an omitted parent_folder_id leaves the stored parent, an explicit null
\* parent_folder_id always succeeds and makes the folder a root, a field that is given
\* is stored when the call succeeds; no other folder row and no note row changes.
C16_MergePatch ==
    [][(/\ last'.op = "updateFolder"
        /\ last'.input.id \in DOMAIN folders
        /\ UpdateFolder(last'.input))
       => LET X == last'.input.id
              input == last'.input
          IN  /\ ~ Has(input, "name") => folders'[X].name = folders[X].name
              /\ ~ Has(input, "parent_folder_id")
                    => folders'[X].parent_folder_id = folders[X].parent_folder_id
              /\ (Has(input, "parent_folder_id") /\ input.parent_folder_id = Null)
                    => last'.error = Ok /\ folders'[X].parent_folder_id = Null
              /\ (Has(input, "name") /\ last'.error = Ok) => folders'[X].name = input.name
              /\ DOMAIN folders' = DOMAIN folders
              /\ \A g \in DOMAIN folders \ {X} : folders'[g] = folders[g]
              /\ notes' = notes]_vars

\* A renamed folder with a parent, a child and a note was patched with a name alone.
C16_Witness ==
    /\ last.op = "updateFolder" /\ last.error = Ok
    /\ DOMAIN last.input = {"id", "name"}
    /\ last.input.id \in DOMAIN folders
    /\ folders[last.input.id].name = "b"
    /\ folders[last.input.id].parent_folder_id # Null
    /\ \E c \in DOMAIN folders : folders[c].parent_folder_id = last.input.id
    /\ \E n \in DOMAIN notes : notes[n].folder_id = last.input.id

\* The explicit-null case of C16: a folder with a child was made a root.
PatchedToRoot ==
    /\ last.op = "updateFolder" /\ last.error = Ok
    /\ DOMAIN last.input = {"id", "parent_folder_id"}
    /\ last.input.parent_folder_id = Null
    /\ last.input.id > 1
    /\ \E c \in DOMAIN folders : folders[c].parent_folder_id = last.input.id

\* updateFolder(id = X, name = n) with n the stored name of X, nothing else given.
SameNameCall(input) ==
    /\ DOMAIN input = {"id", "name"}
    /\ input.id \in DOMAIN folders
    /\ input.name = folders[input.id].name

\* C17 as stated: every call updateFolder(id = X, name = n) with n the stored name of
\* X (the first of two in a row, and the second) leaves name, parent and owner as they
\* were and stores an updated_at strictly later than the one before the call.
C17_SameNameStrictlyAdvances ==
    [][(/\ last'.op = "updateFolder"
        /\ SameNameCall(last'.input)
        /\ UpdateFolder(last'.input))
       => LET X == last'.input.id
          IN  /\ last'.error = Ok
              /\ folders'[X].name = folders[X].name
              /\ folders'[X].parent_folder_id = folders[X].parent_folder_id
              /\ folders'[X].user_id = folders[X].user_id
              /\ folders'[X].updated_at > folders[X].updated_at]_vars

\* C17 amended: such a call leaves name, parent and owner as they were and stores the
\* clock reading of the call as updated_at, which is strictly later than the one
\* before whenever the clock has moved on since that one was stored.
C17_SameNameRefreshesUpdatedAt ==
    [][(/\ last'.op = "updateFolder"
        /\ SameNameCall(last'.input)
        /\ UpdateFolder(last'.input))
       => LET X == last'.input.id
          IN  /\ last'.error = Ok
              /\ DOMAIN folders' = DOMAIN folders
              /\ folders'[X].name = folders[X].name
              /\ folders'[X].parent_folder_id = folders[X].parent_folder_id
              /\ folders'[X].user_id = folders[X].user_id
              /\ folders'[X].updated_at = now
              /\ now > folders[X].updated_at
                    => folders'[X].updated_at > folders[X].updated_at]_vars

\* A same-name call on a folder with a parent, two clock readings after its creation.
C17_Witness ==
    /\ last.op = "updateFolder" /\ last.error = Ok
    /\ SameNameCall(last.input)
    /\ folders[last.input.id].parent_folder_id # Null
    /\ folders[last.input.id].updated_at = now
    /\ folders[last.input.id].updated_at > folders[last.input.id].created_at + 1

\* C18: a step that changes the name or the parent of a folder, at a clock reading
\* later than the folder's updated_at, stores a later updated_at for that folder; so
\* for the target of updateFolder, so for each child that deleteFolder moves.
C18_ChangeAdvancesUpdatedAt ==
    [][\A f \in DOMAIN folders \cap DOMAIN folders' :
          (/\ now > folders[f].updated_at
           /\ \/ folders'[f].name # folders[f].name
              \/ folders'[f].parent_folder_id # folders[f].parent_folder_id)
          => folders'[f].updated_at > folders[f].updated_at]_vars

\* C19: an updateFolder call that fails raises the error of its case (no folder of
\* that id; a non-null parent that is the folder itself, is missing, or is one of
\* its descendants) and leaves every folder row as it was.
C19_FailedUpdateWritesNothing ==
    [][(/\ last'.op = "updateFolder"
        /\ last'.error # Ok
        /\ UpdateFolder(last'.input))
       => LET X == last'.input.id
              P == OrNull(last'.input, "parent_folder_id")
              expected ==
                  IF X \notin DOMAIN folders THEN ErrFolderNotFound
                  ELSE IF P = Null THEN Ok
                  ELSE IF P = X THEN ErrSelfParent
                  ELSE IF P \notin DOMAIN folders THEN ErrParentNotFound
                  ELSE IF X \in Ancestors(folders, P) THEN ErrWouldCycle
                  ELSE Ok
          IN  last'.error = expected /\ folders' = folders]_vars

\* The parent named does not exist; the call also carried a name for an existing folder.
C19_Witness ==
    /\ last.op = "updateFolder" /\ last.error = ErrParentNotFound
    /\ last.input.id \in DOMAIN folders
    /\ Has(last.input, "name")
    /\ last.input.parent_folder_id \notin DOMAIN folders
    /\ folders[last.input.id].parent_folder_id # Null

\* The target-not-found case of C19.
UpdateMissingRejected ==
    /\ last.op = "updateFolder" /\ last.error = ErrFolderNotFound
    /\ last.input.id \notin DOMAIN folders
    /\ folders # EmptyTable

\* C20: a folder that survives a step keeps its id (its row is still the row of that
\* id, with the created_at it had) and its user_id; the only row a step removes is the
\* target of a deleteFolder call.
C20_IdAndOwnerImmutable ==
    [][/\ \A f \in DOMAIN folders \cap DOMAIN folders' :
              /\ folders'[f].user_id = folders[f].user_id
              /\ folders'[f].created_at = folders[f].created_at
       /\ \A f \in DOMAIN folders \ DOMAIN folders' :
              last'.op = "deleteFolder" /\ last'.input.id = f]_vars

\* A folder was deleted and its child, twice moved before, is still there.
C20_Witness ==
    /\ last.op = "deleteFolder" /\ last.error = Ok
    /\ last.input.id = 1
    /\ 3 \in DOMAIN folders /\ 2 \in DOMAIN folders
    /\ folders[2].parent_folder_id = 3
    /\ folders[3].user_id # folders[2].user_id

\* C21: every note with a non-null folder_id is filed in a folder owned by the note's
\* own user.
C21_NoteFiledWithOwnUser ==
    \A n \in DOMAIN notes :
        (notes[n].folder_id # Null /\ notes[n].folder_id \in DOMAIN folders)
            => folders[notes[n].folder_id].user_id = notes[n].user_id

\* The tags associated with a note.
TagsOf(nts, note_id) == {r.tag_id : r \in {q \in nts : q.note_id = note_id}}

\* C22: a successful updateNote leaves the note with exactly the tags of input.tag_ids
\* when tag_ids is given (none for an empty array) and with the tags it had when
\* tag_ids is omitted, and changes the tags of no other note; an updateNote naming no
\* note, a folder missing or of another user, or a tag not owned by the note's user
\* fails and changes no note row and no note_tags row.
C22_UpdateNoteTags ==
    [][(/\ last'.op = "updateNote"
        /\ UpdateNote(last'.input))
       => LET input == last'.input
              N == input.id
              invalid ==
                  \/ N \notin DOMAIN notes
                  \/ /\ OrNull(input, "folder_id") # Null
                     /\ \/ input.folder_id \notin DOMAIN folders
                        \/ folders[input.folder_id].user_id # notes[N].user_id
                  \/ /\ Has(input, "tag_ids")
                     /\ \E t \in Range(input.tag_ids) :
                            t \notin DOMAIN tags \/ tags[t].user_id # notes[N].user_id
          IN  /\ (last'.error = Ok /\ Has(input, "tag_ids"))
                    => TagsOf(noteTags', N) = Range(input.tag_ids)
              /\ (last'.error = Ok /\ ~ Has(input, "tag_ids")) => noteTags' = noteTags
              /\ {r \in noteTags' : r.note_id # N} = {r \in noteTags : r.note_id # N}
              /\ invalid => /\ last'.error \notin {Ok, ErrPrimaryKey}
                            /\ notes' = notes
                            /\ noteTags' = noteTags]_vars

\* A note that had a tag was given another one in its place.
C22_Witness ==
    /\ last.op = "updateNote" /\ last.error = Ok
    /\ Has(last.input, "tag_ids") /\ last.input.tag_ids = <<1>>
    /\ TagsOf(noteTags, last.input.id) = {1}
    /\ 2 \in DOMAIN tags /\ tags[2].user_id = notes[last.input.id].user_id

\* The empty-array case of C22: the note has tags no more.
UpdateNoteClearedTags ==
    /\ last.op = "updateNote" /\ last.error = Ok
    /\ Has(last.input, "tag_ids") /\ last.input.tag_ids = << >>
    /\ TagsOf(noteTags, last.input.id) = {}
    /\ OwnedTags(notes[last.input.id].user_id) # {}

\* The mixed case of C22: one tag of the note's user with one of another user.
UpdateNoteMixedTagsRejected ==
    /\ last.op = "updateNote" /\ last.error = ErrUpdateNoteTags
    /\ Len(last.input.tag_ids) = 2
    /\ \E t \in Range(last.input.tag_ids) : t \in OwnedTags(notes[last.input.id].user_id)
    /\ TagsOf(noteTags, last.input.id) # {}

\* No user owns two tags of one name.
TagNamesUnique(ts) ==
    \A t1, t2 \in DOMAIN ts :
        (t1 # t2 /\ ts[t1].user_id = ts[t2].user_id) => ts[t1].name # ts[t2].name

\* C23: after every step no user owns two tags with the same name; createTag by an
\* existing user fails exactly when that user has a tag of that name (another user's
\* tag of that name does not count); updateTag with the tag's own name succeeds, and
\* with another name fails exactly when the tag's owner has a tag of that name.
C23_TagNamesUniquePerUser ==
    [][/\ TagNamesUnique(tags')
       /\ (/\ last'.op = "createTag"
           /\ last'.input.user_id \in DOMAIN users
           /\ CreateTag(last'.input))
          => LET taken == \E t \in DOMAIN tags :
                              /\ tags[t].user_id = last'.input.user_id
                              /\ tags[t].name = last'.input.name
             IN  /\ taken => last'.error = ErrTagExists /\ tags' = tags
                 /\ ~ taken => last'.error = Ok
       /\ (/\ last'.op = "updateTag"
           /\ last'.input.id \in DOMAIN tags
           /\ Has(last'.input, "name")
           /\ UpdateTag(last'.input))
          => LET T == last'.input.id
                 taken == \E t \in DOMAIN tags \ {T} :
                              /\ tags[t].user_id = tags[T].user_id
                              /\ tags[t].name = last'.input.name
             IN  /\ last'.input.name = tags[T].name => last'.error = Ok
                 /\ taken => last'.error = ErrTagDuplicate /\ tags' = tags
                 /\ ~ taken => last'.error = Ok /\ tags'[T].name = last'.input.name]_vars

\* Two users own a tag of one name, and one of them was updated with its own name.
C23_Witness ==
    /\ last.op = "updateTag" /\ last.error = Ok
    /\ last.input.id \in DOMAIN tags
    /\ Has(last.input, "name") /\ last.input.name = tags[last.input.id].name
    /\ \E t \in DOMAIN tags :
            /\ tags[t].user_id # tags[last.input.id].user_id
            /\ tags[t].name = tags[last.input.id].name

\* The rename case of C23: the owner already has a tag of the new name.
RenameToTakenRejected ==
    /\ last.op = "updateTag" /\ last.error = ErrTagDuplicate
    /\ \E t \in DOMAIN tags \ {last.input.id} :
            /\ tags[t].user_id = tags[last.input.id].user_id
            /\ tags[t].name = last.input.name

\* C24: the ancestor walk terminates after at most N lookups, N the number of folders
\* in the store, whatever the parent links: each lookup is of an id not looked up
\* before (visitedIds holds the ids looked up, the current one included), the walk
\* either ends with it or goes on with one id more, and never holds more than N ids.
C24_WalkWithinFolderCount ==
    [][(calls[1].op = "updateFolder" /\ calls[1].pc = "walk" /\ UpdateFolderWalkStep(1))
       => /\ Cardinality(calls[1].visitedIds) <= Cardinality(DOMAIN folders)
          /\ calls'[1].pc = "walk"
                => /\ calls'[1].visitedIds # calls[1].visitedIds
                   /\ calls[1].visitedIds \subseteq calls'[1].visitedIds
                   /\ Cardinality(calls'[1].visitedIds) <= Cardinality(DOMAIN folders)]_vars

\* The walk ended on its N-th lookup: every folder but the target looked up, and then
\* an id that names no folder.
C24_Witness ==
    /\ calls[1].op = "updateFolder" /\ calls[1].pc = "failed"
    /\ last.error = ErrParentNotFound
    /\ Cardinality(DOMAIN folders) = 2
    /\ calls[1].input.parent_folder_id \in DOMAIN folders
    /\ folders[calls[1].input.parent_folder_id].parent_folder_id \notin DOMAIN folders

\* The ids on the ancestor chain that starts at p: p and everything its parent links
\* lead to.
ChainFrom(fs, p) == {p} \cup Ancestors(fs, p)

\* A chain that never ends: each of its ids names a folder that has a parent.
ChainCycles(fs, p) ==
    \A c \in ChainFrom(fs, p) : c \in DOMAIN fs /\ fs[c].parent_folder_id # Null

\* C25: an updateFolder call that starts its walk at a proposed parent whose chain
\* runs into a cycle without passing folderId fails with 'Circular reference detected
\* in folder hierarchy'; when the chain passes folderId it fails with 'Cannot create
\* circular reference in folder hierarchy'.  Neither call reaches its UPDATE
\* statement or changes the folders table.
C25_CycleErrors ==
    [][(/\ calls[1].op = "updateFolder"
        /\ calls[1].pc \in {"select", "walk", "update"}
        /\ calls[1].input.id \in DOMAIN folders
        /\ calls[1].input.parent_folder_id \notin {Null, calls[1].input.id}
        /\ \/ calls[1].input.id \in ChainFrom(folders, calls[1].input.parent_folder_id)
           \/ ChainCycles(folders, calls[1].input.parent_folder_id))
       => /\ calls[1].pc # "update"
          /\ folders' = folders
          /\ calls'[1].pc # "done"
          /\ calls'[1].pc = "failed"
                => last'.error =
                      IF calls[1].input.id \in ChainFrom(folders, calls[1].input.parent_folder_id)
                      THEN ErrWouldCycle
                      ELSE ErrCycleDetected]_vars

\* A call failed on a cycle that its folder is not part of.
C25_Witness ==
    /\ calls[1].op = "updateFolder" /\ calls[1].pc = "failed"
    /\ last.error = ErrCycleDetected
    /\ calls[1].input.id \in DOMAIN folders
    /\ calls[1].input.id \notin ChainFrom(folders, calls[1].input.parent_folder_id)
    /\ ChainCycles(folders, calls[1].input.parent_folder_id)

\* A call failed on a chain that passes its folder and then runs into a cycle.
WouldCycleBeforeCycle ==
    /\ calls[1].op = "updateFolder" /\ calls[1].pc = "failed"
    /\ last.error = ErrWouldCycle
    /\ calls[1].input.id \notin Ancestors(folders, calls[1].input.id)
    /\ ChainCycles(folders, calls[1].input.parent_folder_id)

\* The ancestors of f in order, nearest first, at most k of them.
RECURSIVE AncestorSeqWithin(_, _, _)
AncestorSeqWithin(fs, f, k) ==
    IF k = 0 \/ f \notin DOMAIN fs \/ fs[f].parent_folder_id = Null THEN <<>>
    ELSE <<fs[f].parent_folder_id>> \o AncestorSeqWithin(fs, fs[f].parent_folder_id, k - 1)

AncestorSeq(fs, f) == AncestorSeqWithin(fs, f, Cardinality(DOMAIN fs))

Without(chain, id) ==
    LET Survives(a) == a # id
    IN  SelectSeq(chain, Survives)

NearestOrNull(chain) == IF chain = <<>> THEN Null ELSE Head(chain)

\* C26: each successful deleteFolder(F) takes F out of every other folder's ancestor
\* chain and leaves the chain otherwise as it was, so the parent of a folder L after
\* it is the nearest ancestor of L that is not F, or null when there is none.  Call
\* after call on ancestors of L, in any order, L's parent is therefore the nearest
\* ancestor of the original chain that no call has deleted.
C26_ParentIsNearestSurvivor ==
    [][(/\ last'.op = "deleteFolder" /\ last'.error = Ok
        /\ DeleteFolder(last'.input))
       => \A L \in DOMAIN folders' :
            /\ AncestorSeq(folders', L) = Without(AncestorSeq(folders, L), last'.input.id)
            /\ folders'[L].parent_folder_id =
                  NearestOrNull(Without(AncestorSeq(folders, L), last'.input.id))]_vars

\* root <- mid <- leaf after deleteFolder(mid): leaf is under root.
C26_Witness ==
    /\ last.op = "deleteFolder" /\ last.error = Ok /\ last.input.id = 2
    /\ DOMAIN folders = {1, 3}
    /\ folders[1].parent_folder_id = Null
    /\ folders[3].parent_folder_id = 1

\* ... and after deleteFolder(root) as well: leaf is a root.
LeafBecameRoot ==
    /\ last.op = "deleteFolder" /\ last.error = Ok /\ last.input.id = 1
    /\ DOMAIN folders = {3}
    /\ folders[3].parent_folder_id = Null

\* C27: deleteFolder(F) keeps the ancestor relation among the other folders: for all
\* folders X and Y other than F, X is an ancestor of Y after the call if and only if
\* it was one before.
C27_AncestryPreserved ==
    [][(/\ last'.op = "deleteFolder" /\ last'.error = Ok
        /\ DeleteFolder(last'.input))
       => /\ DOMAIN folders' = DOMAIN folders \ {last'.input.id}
          /\ \A X, Y \in DOMAIN folders \ {last'.input.id} :
                X \in Ancestors(folders', Y) <=> X \in Ancestors(folders, Y)]_vars

\* A folder with a parent and a subfolder was deleted, and the subfolder is still
\* below that parent.
C27_Witness ==
    /\ last.op = "deleteFolder" /\ last.error = Ok
    /\ last.input.id \notin DOMAIN folders
    /\ \E X, Y \in DOMAIN folders :
            /\ X < last.input.id /\ last.input.id < Y
            /\ folders[Y].parent_folder_id = X

\* C28: two updateFolder calls in flight together on different folders, interleaved
\* statement by statement, leave no cycle in the parent graph once both have ended.
C28_ConcurrentUpdatesAcyclic ==
    (/\ \A p \in Clients : calls[p].op = "updateFolder" /\ calls[p].pc \in {"done", "failed"}
     /\ calls[1].input.id # calls[2].input.id)
        => Acyclic(folders)

\* C29: updateFolder(X, parent_folder_id = P) in flight together with a successful
\* deleteFolder(P), X and P folders of one user: once both have ended, X's parent
\* is not the deleted folder P.
C29_NoParentNamesDeleted ==
    (/\ calls[1].op = "deleteFolder" /\ calls[1].pc = "done"
     /\ calls[2].op = "updateFolder" /\ calls[2].pc \in {"done", "failed"}
     /\ calls[2].input.parent_folder_id = calls[1].input.id
     /\ calls[2].input.id \in DOMAIN folders
     /\ folders[calls[2].input.id].user_id = calls[1].input.user_id)
        => folders[calls[2].input.id].parent_folder_id # calls[1].input.id

\* The user of that email registered with that password: its password_hash is what
\* createUser stores for the password under some salt.
RegisteredWith(u, password) ==
    \E salt \in RegisterSalts : users[u].password_hash = PasswordHash(password, salt)

\* C30: loginUser with the email of a registered user succeeds and returns that user
\* when the password is the one the user registered with, and fails with 'Invalid
\* email or password' for any other password.
C30_RegisterThenLogin ==
    [][(/\ last'.op = "loginUser"
        /\ LoginUser(last'.input))
       => \A u \in DOMAIN users :
            users[u].email = last'.input.email
                => IF RegisteredWith(u, last'.input.password)
                   THEN last'.error = Ok /\ last'.result = u
                   ELSE last'.error = ErrInvalidLogin]_vars

====
